---- MODULE Spec2Model ----
(***************************************************************************)
(* Model of news_summarizer_plus.py: the sentence chunker, the per-chunk   *)
(* summarizer, the summarization orchestrator, the article pipeline and    *)
(* main.                                                                   *)
(*                                                                         *)
(* A Python str is a sequence of one-character strings.  None is the       *)
(* record NoneVal wherever a value is Optional.                            *)
(***************************************************************************)
EXTENDS Integers, Sequences, FiniteSets, TLC

(* ---------------------------- bounds ----------------------------------- *)
MaxTextLen == 7      \* longest text handed to chunk_sentences and summarize_text
MaxChunkSize == 3    \* largest --chunk-size tried
MaxUrls == 2         \* most URLs on the command line

(* ---------------------------- strings ---------------------------------- *)
Whitespace == {" ", "\n"}

TextChars == {"a", ".", " "}

IsSpace(c) == c \in Whitespace

\* str.rstrip()
RECURSIVE RStrip(_)
RStrip(s) ==
    IF s = <<>> THEN <<>>
    ELSE IF IsSpace(s[Len(s)]) THEN RStrip(SubSeq(s, 1, Len(s) - 1))
    ELSE s

\* str.strip() is non-empty
NonBlank(s) == \E i \in 1..Len(s) : ~IsSpace(s[i])

\* str.split(): the maximal runs of non-whitespace characters, in order
RECURSIVE SplitScan(_, _, _, _)
SplitScan(s, i, cur, out) ==
    IF i > Len(s) THEN (IF cur = <<>> THEN out ELSE Append(out, cur))
    ELSE IF IsSpace(s[i])
         THEN SplitScan(s, i + 1, <<>>, IF cur = <<>> THEN out ELSE Append(out, cur))
         ELSE SplitScan(s, i + 1, Append(cur, s[i]), out)

Split(s) == SplitScan(s, 1, <<>>, <<>>)

\* len(s.split())
WordCount(s) == Len(Split(s))

\* sep.join(parts)
RECURSIVE Join(_, _)
Join(sep, parts) ==
    IF parts = <<>> THEN <<>>
    ELSE IF Len(parts) = 1 THEN parts[1]
    ELSE parts[1] \o sep \o Join(sep, Tail(parts))

(* ------------------------ sentence tokenizer --------------------------- *)
\* nltk.sent_tokenize: a sentence ends at a "." that is followed by
\* whitespace; the whitespace between two sentences belongs to neither, the
\* whitespace inside a sentence and before the first one is kept, the
\* whitespace after the last one is dropped, and no sentence is empty.
RECURSIVE SentScan(_, _, _, _)
SentScan(s, i, cur, out) ==
    IF i > Len(s)
    THEN (IF RStrip(cur) = <<>> THEN out ELSE Append(out, RStrip(cur)))
    ELSE IF IsSpace(s[i]) /\ cur # <<>> /\ cur[Len(cur)] = "."
         THEN SentScan(s, i + 1, <<>>, Append(out, cur))
    ELSE IF IsSpace(s[i]) /\ cur = <<>> /\ out # <<>>
         THEN SentScan(s, i + 1, cur, out)
    ELSE SentScan(s, i + 1, Append(cur, s[i]), out)

SentTokenize(s) == SentScan(s, 1, <<>>, <<>>)

(* --------------------------- chunk_sentences --------------------------- *)
\* a chunker that tests the running length before adding the sentence
ShouldCloseLate(current_len, sent_words, size, current_chunk) ==
    current_len > size /\ current_chunk # <<>>

\* a chunker that counts sentences where it should count words
ShouldCloseBySentences(current_len, sent_words, size, current_chunk) ==
    Len(current_chunk) + 1 > size /\ current_chunk # <<>>

\* line 80: the running chunk is closed before this sentence
ShouldClose(current_len, sent_words, size, current_chunk) ==
    current_len + sent_words > size /\ current_chunk # <<>>

\* a chunker without the lines after the loop
CloseLastMissing(out, current_chunk) == out

\* lines 86-87: the running chunk is closed after the last sentence
CloseLast(out, current_chunk) ==
    IF current_chunk # <<>> THEN Append(out, current_chunk) ELSE out

\* lines 78-85, one iteration per sentence; lines 86-87 after the last one.
\* The result is the list of sentence lists that were joined, in order.
RECURSIVE ChunkLoop(_, _, _, _, _, _)
ChunkLoop(sentences, k, size, out, current_chunk, current_len) ==
    IF k > Len(sentences)
    THEN CloseLast(out, current_chunk)
    ELSE LET sent == sentences[k]
             sent_words == WordCount(sent)
         IN IF ShouldClose(current_len, sent_words, size, current_chunk)
            THEN ChunkLoop(sentences, k + 1, size, Append(out, current_chunk),
                           <<sent>>, sent_words)
            ELSE ChunkLoop(sentences, k + 1, size, out,
                           Append(current_chunk, sent), current_len + sent_words)

ChunkGroups(sentences, size) == ChunkLoop(sentences, 1, size, <<>>, <<>>, 0)

\* lines 81 and 87: ' '.join(current_chunk)
JoinGroups(gs) == [j \in 1..Len(gs) |-> Join(<<" ">>, gs[j])]

chunk_sentences(t, size) == JoinGroups(ChunkGroups(SentTokenize(t), size))

(* ------------------------------ values --------------------------------- *)
\* Optional[str]
NoneVal == [none |-> TRUE, str |-> <<>>]

Some(s) == [none |-> FALSE, str |-> s]

\* "summary is None" where the code has "not summary"
FalsyOnlyNone(r) == r.none

\* Python's "not x" on an Optional[str]: None and "" are both false
Falsy(r) == r.none \/ r.str = <<>>

\* line 140
FailedTitle == <<"(", "F", "a", "i", "l", "e", "d", " ", "t", "o", " ",
                 "f", "e", "t", "c", "h", ")">>

\* line 140
CouldNotProcess == <<"C", "o", "u", "l", "d", " ", "n", "o", "t", " ",
                     "p", "r", "o", "c", "e", "s", "s", " ", "t", "h", "e", " ",
                     "a", "r", "t", "i", "c", "l", "e", ".">>

\* line 145
CouldNotGenerate == <<"C", "o", "u", "l", "d", " ", "n", "o", "t", " ",
                      "g", "e", "n", "e", "r", "a", "t", "e", " ",
                      "s", "u", "m", "m", "a", "r", "y", ".">>

\* line 186
CouldNotLoad == "Could not load summarization model. Exiting."

\* line 156: [:40]
BasenameCut == 40

(* ------------------------------ inputs --------------------------------- *)
SeqsUpTo(S, lo, hi) == UNION {[1..n -> S] : n \in lo..hi}

\* every text of at most MaxTextLen characters
Texts == SeqsUpTo(TextChars, 0, MaxTextLen)

ChunkSizes == 1..MaxChunkSize

Urls == {"u1", "u2"}

UrlLists == SeqsUpTo(Urls, 0, MaxUrls)

\* what clean_article_text returns as main_text in a batch: one sentence of
\* one word, one sentence of two words, two sentences of one word
ArticleTexts == {<<".">>, <<"a", " ", ".">>, <<".", " ", ".">>}

\* article.title: empty, or with a space and a slash and longer than the cut
Titles == {<<>>, <<"A", " ", "/">> \o [j \in 1..BasenameCut |-> "t"]}

ExportFormats == {"txt", "md", "json"}

\* the summary strings the capability returns
SummaryTexts == {<<>>, <<"x">>}

\* what one call of the summarization capability does: it raises, returns
\* something [0]['summary_text'] cannot be read from (malformed), returns
\* [], or returns [{'summary_text': text}] with a string text
CapOutcomes ==
    {[kind |-> kd, text |-> <<>>] : kd \in {"raise", "malformed", "empty_list"}}
    \cup {[kind |-> "ok", text |-> t] : t \in SummaryTexts}

\* lines 97 and 111-112: summarizer(...)[0]['summary_text'] raises unless the
\* call returned a well-formed, non-empty list
CallRaises(o) == o.kind # "ok"

(* ------------------------------- state --------------------------------- *)
VARIABLES
    pc,            \* position of the program
    urls,          \* the input URLs (main, lines 174-182)
    chunk_size,    \* args.chunk_size
    output_dir,    \* args.output_dir is given
    export_format, \* args.export_format
    dir_exists,    \* os.path.exists(args.output_dir)
    dir_made,      \* os.makedirs was called
    i,             \* batch_process: number of URLs done
    title,         \* process_article: title
    article_text,  \* process_article: article_text / chunk_sentences: text
    chunks,        \* chunk_sentences: its return value
    idx,           \* summarize_chunks: idx of the loop
    summaries,     \* summarize_chunks: summaries
    result,        \* the return value of summarize_text
    ret,           \* the return value of process_article
    calls,         \* the texts the capability was called with, this article
    outcomes,      \* how each of these calls ended, this article
    chunker_calls, \* calls of chunk_sentences, this article
    log,           \* logging.warning / logging.error records, this article
    fetch_log,     \* the URLs clean_article_text was called with, and what it returned
    console,       \* the article records printed, in order
    exported,      \* the files export_summary wrote, in order
    message,       \* what main printed
    exit_status    \* the process exit status, -1 while running

vars == <<pc, urls, chunk_size, output_dir, export_format, dir_exists, dir_made,
          i, title, article_text, chunks, idx, summaries, result, ret,
          calls, outcomes, chunker_calls, log, fetch_log, console, exported,
          message, exit_status>>

args == <<urls, chunk_size, output_dir, export_format>>

locals == <<title, article_text, chunks, idx, summaries, result, ret,
            calls, outcomes, chunker_calls, log>>

outputs == <<fetch_log, console, exported, message, exit_status>>

NoRet == [title |-> <<>>, url |-> "", summary |-> <<>>]

FreshLocals ==
    /\ title = <<>>
    /\ article_text = <<>>
    /\ chunks = <<>>
    /\ idx = 0
    /\ summaries = <<>>
    /\ result = NoneVal
    /\ ret = NoRet
    /\ calls = <<>>
    /\ outcomes = <<>>
    /\ chunker_calls = 0
    /\ log = <<>>

FreshOutputs ==
    /\ fetch_log = <<>>
    /\ console = <<>>
    /\ exported = <<>>
    /\ message = <<>>
    /\ exit_status = -1

(* --------------------- chunk_sentences on its own ---------------------- *)
InitChunk ==
    /\ pc = "call"
    /\ urls = <<>>
    /\ chunk_size \in ChunkSizes
    /\ output_dir = FALSE
    /\ export_format = "txt"
    /\ dir_exists = FALSE
    /\ dir_made = FALSE
    /\ i = 0
    /\ title = <<>>
    /\ article_text \in Texts
    /\ chunks = <<>>
    /\ idx = 0
    /\ summaries = <<>>
    /\ result = NoneVal
    /\ ret = NoRet
    /\ calls = <<>>
    /\ outcomes = <<>>
    /\ chunker_calls = 0
    /\ log = <<>>
    /\ FreshOutputs

CallChunkSentences ==
    /\ pc = "call"
    /\ chunks' = chunk_sentences(article_text, chunk_size)
    /\ chunker_calls' = chunker_calls + 1
    /\ pc' = "returned"
    /\ UNCHANGED <<args, dir_exists, dir_made, i, title, article_text, idx,
                   summaries, result, ret, calls, outcomes, log, outputs>>

NextChunk == CallChunkSentences

SpecChunk == InitChunk /\ [][NextChunk]_vars

(* ------------------------------- main ---------------------------------- *)
Init ==
    /\ pc = "load"
    /\ urls \in UrlLists
    /\ chunk_size \in ChunkSizes
    /\ output_dir \in BOOLEAN
    /\ export_format \in (IF output_dir THEN ExportFormats ELSE {"txt"})
    /\ dir_exists \in (IF output_dir THEN BOOLEAN ELSE {FALSE})
    /\ dir_made = FALSE
    /\ i = 0
    /\ FreshLocals
    /\ FreshOutputs

\* a main that creates the output directory before it tests the model
LoadModelFailsAfterMakedirs ==
    /\ pc = "load"
    /\ dir_made' = (output_dir /\ ~dir_exists)
    /\ dir_exists' = (dir_exists \/ output_dir)
    /\ log' = <<[level |-> "error", chunk |-> 0]>>
    /\ message' = <<CouldNotLoad>>
    /\ exit_status' = 1
    /\ pc' = "exit"
    /\ UNCHANGED <<args, i, title, article_text, chunks, idx, summaries, result,
                   ret, calls, outcomes, chunker_calls, fetch_log, console,
                   exported>>

\* lines 184-187 with lines 37-43: pipeline() raises, load_summarization_model
\* logs and returns None, main prints and exits 1
LoadModelFails ==
    /\ pc = "load"
    /\ log' = <<[level |-> "error", chunk |-> 0]>>
    /\ message' = <<CouldNotLoad>>
    /\ exit_status' = 1
    /\ pc' = "exit"
    /\ UNCHANGED <<args, dir_exists, dir_made, i, title, article_text, chunks,
                   idx, summaries, result, ret, calls, outcomes, chunker_calls,
                   fetch_log, console, exported>>

\* lines 184-190: the model loads, the output directory is created if absent
LoadModelOk ==
    /\ pc = "load"
    /\ dir_made' = (output_dir /\ ~dir_exists)
    /\ dir_exists' = (dir_exists \/ output_dir)
    /\ pc' = "batch"
    /\ UNCHANGED <<args, i, locals, outputs>>

\* line 152 when the URLs are used up; main returns, exit status 0
BatchDone ==
    /\ pc = "batch"
    /\ i = Len(urls)
    /\ exit_status' = 0
    /\ pc' = "exit"
    /\ UNCHANGED <<args, dir_exists, dir_made, i, locals, fetch_log, console,
                   exported, message>>

\* a clean_article_text that lets the exception out: the batch ends
FetchFailsAborts ==
    /\ pc = "batch"
    /\ i < Len(urls)
    /\ fetch_log' = Append(fetch_log, [url |-> urls[i + 1], ok |-> FALSE,
                                       title |-> <<>>])
    /\ log' = <<[level |-> "error", chunk |-> 0]>>
    /\ exit_status' = 1
    /\ pc' = "exit"
    /\ UNCHANGED <<args, dir_exists, dir_made, i, title, article_text, chunks,
                   idx, summaries, result, ret, calls, outcomes, chunker_calls,
                   console, exported, message>>

\* lines 138-140 with lines 64-66: clean_article_text fails for the next URL
FetchFails ==
    /\ pc = "batch"
    /\ i < Len(urls)
    /\ fetch_log' = Append(fetch_log, [url |-> urls[i + 1], ok |-> FALSE,
                                       title |-> <<>>])
    /\ log' = <<[level |-> "error", chunk |-> 0]>>
    /\ ret' = [title |-> FailedTitle, url |-> urls[i + 1], summary |-> CouldNotProcess]
    /\ pc' = "print"
    /\ UNCHANGED <<args, dir_exists, dir_made, i, title, article_text, chunks,
                   idx, summaries, result, calls, outcomes, chunker_calls, console,
                   exported, message, exit_status>>

\* lines 138-139 with lines 51-63: clean_article_text returns a title and a
\* non-blank text
FetchOk ==
    /\ pc = "batch"
    /\ i < Len(urls)
    /\ \E t \in Titles, x \in ArticleTexts :
        /\ NonBlank(x)
        /\ title' = t
        /\ article_text' = x
        /\ fetch_log' = Append(fetch_log, [url |-> urls[i + 1], ok |-> TRUE,
                                           title |-> t])
    /\ pc' = "summarize"
    /\ UNCHANGED <<args, dir_exists, dir_made, i, chunks, idx, summaries, result,
                   ret, calls, outcomes, chunker_calls, log, console, exported, message,
                   exit_status>>

\* ">=" where line 107 has ">"
IsLongFromEqual(t, size) == WordCount(t) >= size

\* line 107
IsLong(t, size) == WordCount(t) > size

\* lines 107-108 and 94: the text is long, it is chunked and the loop starts
StartChunks ==
    /\ pc = "summarize"
    /\ IsLong(article_text, chunk_size)
    /\ chunks' = chunk_sentences(article_text, chunk_size)
    /\ chunker_calls' = chunker_calls + 1
    /\ idx' = 0
    /\ summaries' = <<>>
    /\ pc' = "chunk_loop"
    /\ UNCHANGED <<args, dir_exists, dir_made, i, title, article_text, result,
                   ret, calls, outcomes, log, outputs>>

\* a try around the whole loop: a failure loses what was collected
AfterChunkRestarts(sums, o) == IF CallRaises(o) THEN <<>> ELSE Append(sums, o.text)

\* a warning that prints idx where line 100 prints idx + 1
WarnChunkZeroBased(lg, n, o) ==
    IF CallRaises(o) THEN Append(lg, [level |-> "warning", chunk |-> n]) ELSE lg

\* lines 97-100: what summaries and the log are after the call for the chunk
\* at idx ended as o
AfterChunk(sums, o) == IF CallRaises(o) THEN sums ELSE Append(sums, o.text)

WarnChunk(lg, n, o) ==
    IF CallRaises(o) THEN Append(lg, [level |-> "warning", chunk |-> n + 1]) ELSE lg

\* lines 95-100: one iteration of the loop of summarize_chunks
SummarizeChunk ==
    /\ pc = "chunk_loop"
    /\ idx < Len(chunks)
    /\ \E o \in CapOutcomes :
        /\ calls' = Append(calls, chunks[idx + 1])
        /\ outcomes' = Append(outcomes, o)
        /\ summaries' = AfterChunk(summaries, o)
        /\ log' = WarnChunk(log, idx, o)
    /\ idx' = idx + 1
    /\ UNCHANGED <<pc, args, dir_exists, dir_made, i, title, article_text, chunks,
                   result, ret, chunker_calls, outputs>>

\* line 101
JoinSummaries(sums) == Join(<<"\n">>, sums)

\* lines 101 and 109: the loop is over, summarize_text returns the join
ReturnJoined ==
    /\ pc = "chunk_loop"
    /\ idx = Len(chunks)
    /\ result' = Some(JoinSummaries(summaries))
    /\ pc' = "returned"
    /\ UNCHANGED <<args, dir_exists, dir_made, i, title, article_text, chunks,
                   idx, summaries, ret, calls, outcomes, chunker_calls, log, outputs>>

\* a short path that returns "" where line 115 returns None
ShortResultEmpty(o) == IF CallRaises(o) THEN Some(<<>>) ELSE Some(o.text)

\* lines 110-115: what summarize_text returns on the short path
ShortResult(o) == IF CallRaises(o) THEN NoneVal ELSE Some(o.text)

\* lines 107 and 110-115: the text is short, one call on the whole text
SummarizeShort ==
    /\ pc = "summarize"
    /\ ~IsLong(article_text, chunk_size)
    /\ \E o \in CapOutcomes :
        /\ calls' = Append(calls, article_text)
        /\ outcomes' = Append(outcomes, o)
        /\ result' = ShortResult(o)
        /\ log' = IF CallRaises(o)
                  THEN Append(log, [level |-> "error", chunk |-> 0])
                  ELSE log
    /\ pc' = "returned"
    /\ UNCHANGED <<args, dir_exists, dir_made, i, title, article_text, chunks,
                   idx, summaries, ret, chunker_calls, outputs>>

\* lines 144-145
SummaryOrPlaceholder(r) == IF Falsy(r) THEN CouldNotGenerate ELSE r.str

\* lines 144-146: process_article returns
ReturnArticle ==
    /\ pc = "returned"
    /\ ret' = [title |-> title, url |-> urls[i + 1],
               summary |-> SummaryOrPlaceholder(result)]
    /\ pc' = "print"
    /\ UNCHANGED <<args, dir_exists, dir_made, i, title, article_text, chunks,
                   idx, summaries, result, calls, outcomes, chunker_calls, log, outputs>>

\* str.replace(old, new) for one-character old and new
Replace(s, old, new) == [j \in 1..Len(s) |-> IF s[j] = old THEN new ELSE s[j]]

\* s[:n]
Prefix(s, n) == SubSeq(s, 1, IF Len(s) < n THEN Len(s) ELSE n)

\* line 156
Basename(t) ==
    Prefix(Replace(Replace(IF t = <<>> THEN <<"a", "r", "t", "i", "c", "l", "e">> ELSE t,
                           " ", "_"), "/", "_"), BasenameCut)

\* lines 153-160: the record is printed and, with an output directory,
\* exported; the locals of this iteration are gone
PrintAndExport ==
    /\ pc = "print"
    /\ console' = Append(console, ret)
    /\ exported' = IF output_dir
                   THEN Append(exported, [basename |-> Basename(ret.title),
                                          ext |-> export_format,
                                          title |-> ret.title, url |-> ret.url,
                                          summary |-> ret.summary])
                   ELSE exported
    /\ i' = i + 1
    /\ pc' = "batch"
    /\ title' = <<>>
    /\ article_text' = <<>>
    /\ chunks' = <<>>
    /\ idx' = 0
    /\ summaries' = <<>>
    /\ result' = NoneVal
    /\ ret' = NoRet
    /\ calls' = <<>>
    /\ outcomes' = <<>>
    /\ chunker_calls' = 0
    /\ log' = <<>>
    /\ UNCHANGED <<args, dir_exists, dir_made, fetch_log, message, exit_status>>

(* ---------------------- summarize_text on its own ---------------------- *)
InitSummarize ==
    /\ pc = "summarize"
    /\ urls = <<>>
    /\ chunk_size \in ChunkSizes
    /\ output_dir = FALSE
    /\ export_format = "txt"
    /\ dir_exists = FALSE
    /\ dir_made = FALSE
    /\ i = 0
    /\ title = <<>>
    /\ article_text \in Texts
    /\ chunks = <<>>
    /\ idx = 0
    /\ summaries = <<>>
    /\ result = NoneVal
    /\ ret = NoRet
    /\ calls = <<>>
    /\ outcomes = <<>>
    /\ chunker_calls = 0
    /\ log = <<>>
    /\ FreshOutputs

NextSummarize ==
    \/ StartChunks
    \/ SummarizeChunk
    \/ ReturnJoined
    \/ SummarizeShort

SpecSummarize == InitSummarize /\ [][NextSummarize]_vars

(* ----------------------------- the program ----------------------------- *)
Next ==
    \/ LoadModelFails
    \/ LoadModelOk
    \/ BatchDone
    \/ FetchFails
    \/ FetchOk
    \/ StartChunks
    \/ SummarizeChunk
    \/ ReturnJoined
    \/ SummarizeShort
    \/ ReturnArticle
    \/ PrintAndExport

Spec == Init /\ [][Next]_vars

(* ======================= properties of the chunker ====================== *)
\* the sentences of the text chunk_sentences was called with
Sentences == SentTokenize(article_text)

\* the sentences of the j-th returned chunk
ChunkSents(j) == SentTokenize(chunks[j])

RECURSIVE Flatten(_)
Flatten(ss) == IF ss = <<>> THEN <<>> ELSE Head(ss) \o Flatten(Tail(ss))

\* cs are the ' '-joins of consecutive non-empty runs of ss that use up ss
RECURSIVE IsRunPartition(_, _)
IsRunPartition(cs, ss) ==
    IF cs = <<>> THEN ss = <<>>
    ELSE \E n \in 1..Len(ss) :
            /\ cs[1] = Join(<<" ">>, SubSeq(ss, 1, n))
            /\ IsRunPartition(Tail(cs), SubSeq(ss, n + 1, Len(ss)))

\* the chunk that holds the k-th sentence of the text
RECURSIVE ChunkOf(_, _)
ChunkOf(k, j) ==
    IF j >= Len(chunks) \/ k <= Len(ChunkSents(j)) THEN j
    ELSE ChunkOf(k - Len(ChunkSents(j)), j + 1)

Returned == pc = "returned" /\ chunker_calls = 1

\* C1: once chunk_sentences has returned, its chunks are the single-space
\* joins of consecutive runs of the tokenized sentences, and the sentences of
\* the chunks listed in chunk order are the tokenized sentences: none lost,
\* none twice, none out of place.
C1_Partition ==
    Returned =>
        /\ IsRunPartition(chunks, Sentences)
        /\ Flatten([j \in 1..Len(chunks) |-> ChunkSents(j)]) = Sentences

\* C1 witness: three sentences came back as two chunks, one of two sentences
C1_Witness ==
    /\ Returned
    /\ Len(Sentences) = 3
    /\ Len(chunks) = 2
    /\ \E j \in 1..2 : Len(ChunkSents(j)) = 2

\* C2: every returned chunk of two or more sentences has at most chunk_size
\* words by whitespace split.
C2_Budget ==
    Returned =>
        \A j \in 1..Len(chunks) :
            Len(ChunkSents(j)) >= 2 => WordCount(chunks[j]) <= chunk_size

\* C2 witness: a chunk of two sentences fills the budget exactly, and the
\* sentence after it, which did not fit, opened the next chunk
C2_Witness ==
    /\ Returned
    /\ Len(chunks) >= 2
    /\ Len(ChunkSents(1)) = 2
    /\ WordCount(chunks[1]) = chunk_size

\* C3: a sentence of more than chunk_size words is the whole of its chunk,
\* wherever it stands in the text.
C3_OversizedAlone ==
    Returned =>
        \A k \in 1..Len(Sentences) :
            WordCount(Sentences[k]) > chunk_size =>
                /\ Len(ChunkSents(ChunkOf(k, 1))) = 1
                /\ chunks[ChunkOf(k, 1)] = Sentences[k]

\* C3 witness: an oversized sentence between two sentences that fit
C3_Witness ==
    /\ Returned
    /\ Len(Sentences) = 3
    /\ WordCount(Sentences[1]) <= chunk_size
    /\ WordCount(Sentences[2]) > chunk_size
    /\ WordCount(Sentences[3]) <= chunk_size
    /\ Len(chunks) = 3

(* ==================== properties of summarize_text ===================== *)
\* the summary strings of the calls that returned one, in call order
RECURSIVE OkTexts(_)
OkTexts(os) ==
    IF os = <<>> THEN <<>>
    ELSE IF Head(os).kind = "ok" THEN <<Head(os).text>> \o OkTexts(Tail(os))
    ELSE OkTexts(Tail(os))

\* the 1-based positions of the calls that satisfy Bad, in call order
BadPositions(os, Bad(_)) ==
    LET RECURSIVE From(_)
        From(n) == IF n > Len(os) THEN <<>>
                   ELSE IF Bad(os[n]) THEN <<n>> \o From(n + 1)
                   ELSE From(n + 1)
    IN From(1)

Warnings(ps) == [n \in 1..Len(ps) |-> [level |-> "warning", chunk |-> ps[n]]]

CountOf(c, t) == Cardinality({n \in 1..Len(t) : t[n] = c})

LongPath == IsLong(article_text, chunk_size)

InLoop == pc = "chunk_loop" \/ (pc = "returned" /\ LongPath)

\* C4: in summarize_chunks the chunks are passed to the capability one by one
\* in chunk order, each once, whatever the earlier calls did; what it returns
\* is the newline-join of the summaries of the calls that succeeded, in chunk
\* order, and it is a string, never an exception.
C4_FailureIsolation ==
    /\ InLoop => /\ calls = SubSeq(chunks, 1, idx)
                 /\ Len(outcomes) = idx
                 /\ summaries = OkTexts(outcomes)
    /\ (pc = "returned" /\ LongPath) =>
            /\ calls = chunks
            /\ result = Some(Join(<<"\n">>, OkTexts(outcomes)))

\* C4 witness: of three chunks the middle one raised and the other two gave
\* a summary
C4_Witness ==
    /\ pc = "returned"
    /\ Len(chunks) = 3
    /\ Len(outcomes) = 3
    /\ outcomes[1] = [kind |-> "ok", text |-> <<"x">>]
    /\ outcomes[2].kind = "raise"
    /\ outcomes[3] = [kind |-> "ok", text |-> <<"x">>]
    /\ result = Some(<<"x", "\n", "x">>)

\* C5: summarize_text returns None when the text has at most chunk_size words
\* and its one call fails, and the empty string, not None, when the text has
\* more words and every chunk's call fails; None is returned in no other case.
C5_TotalFailure ==
    pc = "returned" =>
        /\ (~LongPath /\ CallRaises(outcomes[1])) => result = NoneVal
        /\ (LongPath /\ \A n \in 1..Len(outcomes) : CallRaises(outcomes[n]))
                => result = Some(<<>>)
        /\ result.none => (~LongPath /\ CallRaises(outcomes[1]))

\* C5 witness: a text of exactly chunk_size words whose one call raised
C5_Witness ==
    /\ pc = "returned"
    /\ WordCount(article_text) = chunk_size
    /\ Len(outcomes) = 1
    /\ outcomes[1].kind = "raise"
    /\ result = NoneVal

\* C5 second case reached: two chunks, both calls failed, "" was returned
C5_WitnessLong ==
    /\ pc = "returned"
    /\ Len(chunks) = 2
    /\ \A n \in 1..2 : CallRaises(outcomes[n])
    /\ result = Some(<<>>)

\* C6: a text of at most chunk_size words is passed to the capability whole,
\* once, and chunk_sentences is not called; a text of more words is chunked
\* once and the capability is called once per chunk.
C6_ShortBypass ==
    /\ ~LongPath => chunker_calls = 0
    /\ pc = "returned" =>
        IF WordCount(article_text) <= chunk_size
        THEN calls = <<article_text>> /\ chunker_calls = 0
        ELSE /\ chunker_calls = 1
             /\ chunks = chunk_sentences(article_text, chunk_size)
             /\ Len(calls) = Len(chunks)

\* C6 witness: a text of two sentences and exactly chunk_size words went to
\* the capability in one call
C6_Witness ==
    /\ pc = "returned"
    /\ WordCount(article_text) = chunk_size
    /\ Len(Sentences) = 2
    /\ calls = <<article_text>>
    /\ chunker_calls = 0

\* what counts as a failed call in the claim as written: also a summary ""
FailedOrEmpty(o) == CallRaises(o) \/ o.text = <<>>

\* what counts as a failed call in the code
Failed(o) == CallRaises(o)

\* C9 as written: a call that raises, returns a malformed result, returns an
\* empty list or returns an empty summary string is warned about with its
\* 1-based index and adds no entry and no separator to the joined result.
C9_EmptySummaryIsFailure ==
    InLoop =>
        /\ log = Warnings(BadPositions(outcomes, FailedOrEmpty))
        /\ Len(summaries) = Len(outcomes) - Len(BadPositions(outcomes, FailedOrEmpty))
        /\ \A n \in 1..Len(summaries) : summaries[n] # <<>>

\* C9 amended: a call that raises, returns a malformed result or returns an
\* empty list is warned about with its 1-based index and adds no entry and no
\* separator to the joined result, and the loop goes on; a call that returns
\* an empty summary string is no failure: no warning, and "" is an entry of
\* the join, with its separator.
C9_FailedChunkContributesNothing ==
    /\ InLoop =>
        /\ log = Warnings(BadPositions(outcomes, Failed))
        /\ Len(summaries) = Len(outcomes) - Len(BadPositions(outcomes, Failed))
        /\ summaries = OkTexts(outcomes)
    /\ (pc = "returned" /\ LongPath) =>
        /\ Len(outcomes) = Len(chunks)
        /\ CountOf("\n", result.str) =
              IF summaries = <<>> THEN 0 ELSE Len(summaries) - 1
        /\ Len(result.str) = CountOf("\n", result.str) + CountOf("x", result.str)

\* C9 witness: three chunks; the first call returned a summary, the second
\* an empty list, the third an empty summary string: one warning, for chunk
\* 2, and the result is the first summary and a newline
C9_Witness ==
    /\ pc = "returned"
    /\ Len(chunks) = 3
    /\ Len(outcomes) = 3
    /\ outcomes[1] = [kind |-> "ok", text |-> <<"x">>]
    /\ outcomes[2].kind = "empty_list"
    /\ outcomes[3] = [kind |-> "ok", text |-> <<>>]
    /\ log = <<[level |-> "warning", chunk |-> 2]>>
    /\ result = Some(<<"x", "\n">>)

(* ================= properties of the article pipeline ================== *)
\* an article is in work: fetched, not yet printed
InArticle == pc \in {"summarize", "chunk_loop", "returned", "print"}

\* C7: the URLs are fetched in input order, each once, the next one only
\* after the record of the one before was printed; the records printed are
\* one per URL in that order; a failed fetch gives that URL the title
\* "(Failed to fetch)" and the summary "Could not process the article.", and
\* a fetched article keeps its own title and gets another summary; no failure
\* ends the process, and when the batch is over every URL has its record,
\* whichever fetches and summarizations failed.
C7_BatchIsolation ==
    /\ Len(fetch_log) <= Len(urls)
    /\ \A j \in 1..Len(fetch_log) : fetch_log[j].url = urls[j]
    /\ Len(console) = i
    /\ Len(fetch_log) = (IF InArticle THEN i + 1 ELSE i)
    /\ \A j \in 1..Len(console) :
        /\ console[j].url = urls[j]
        /\ ~fetch_log[j].ok =>
                /\ console[j].title = FailedTitle
                /\ console[j].summary = CouldNotProcess
        /\ fetch_log[j].ok =>
                /\ console[j].title = fetch_log[j].title
                /\ console[j].summary # CouldNotProcess
    /\ fetch_log # <<>> => exit_status # 1
    /\ (pc = "exit" /\ exit_status = 0) =>
            Len(fetch_log) = Len(urls) /\ Len(console) = Len(urls)

\* C7 witness: two URLs; the first fetch failed, the one summarization call
\* of the second raised, and both records were printed before the exit
C7_Witness ==
    /\ pc = "exit"
    /\ exit_status = 0
    /\ Len(urls) = 2
    /\ Len(console) = 2
    /\ ~fetch_log[1].ok
    /\ console[1].title = FailedTitle
    /\ fetch_log[2].ok
    /\ console[2].summary = CouldNotGenerate

\* C8: when the model does not load, main prints its message and exits with
\* status 1 and nothing else has happened: no URL fetched, no capability
\* call, no record printed, no file exported, no directory created; when it
\* loads, the exit status is 0 and every URL has been fetched and printed.
C8_ModelLoadFatal ==
    /\ exit_status \in {-1, 0, 1}
    /\ pc = "exit" <=> exit_status # -1
    /\ exit_status = 1 =>
        /\ message = <<CouldNotLoad>>
        /\ fetch_log = <<>>
        /\ calls = <<>>
        /\ console = <<>>
        /\ exported = <<>>
        /\ ~dir_made
    /\ exit_status = 0 =>
        /\ message = <<>>
        /\ Len(fetch_log) = Len(urls)
        /\ Len(console) = Len(urls)
        /\ output_dir => Len(exported) = Len(urls)
    /\ pc = "load" =>
        fetch_log = <<>> /\ console = <<>> /\ exported = <<>> /\ ~dir_made

\* C8 witness: URLs were given, an output directory that did not exist was
\* asked for, and the model did not load
C8_Witness ==
    /\ exit_status = 1
    /\ urls # <<>>
    /\ output_dir
    /\ ~dir_exists
    /\ message = <<CouldNotLoad>>

\* C10: what process_article returns for a fetched article has the fetched
\* title, the input URL and a summary that is never empty: None and "" from
\* summarize_text both become "Could not generate summary.", anything else
\* is passed on; no record printed or exported has an empty summary.
C10_NoEmptySummary ==
    /\ (pc = "print" /\ fetch_log[i + 1].ok) =>
        /\ ret.title = title
        /\ ret.url = urls[i + 1]
        /\ ret.summary # <<>>
        /\ (result.none \/ result.str = <<>>) => ret.summary = CouldNotGenerate
        /\ (~result.none /\ result.str # <<>>) => ret.summary = result.str
    /\ \A j \in 1..Len(console) : console[j].summary # <<>>
    /\ \A j \in 1..Len(exported) :
        /\ exported[j].summary # <<>>
        /\ exported[j].summary = console[j].summary

\* C10 witness: both chunks of a long text failed, summarize_text returned
\* "", and process_article returned the placeholder
C10_Witness ==
    /\ pc = "print"
    /\ fetch_log[i + 1].ok
    /\ Len(chunks) = 2
    /\ result = Some(<<>>)
    /\ ret.summary = CouldNotGenerate

====
